---- MODULE Spec2Model ----
(***************************************************************************)
(* Maternity readmission simulator: the cohort generator                   *)
(* (utils/dataGenerator.ts), the logistic-regression engine and feature    *)
(* encoder (utils/mlModel.ts) and the App component's effect, audit and    *)
(* prediction handler (App.tsx).                                           *)
(*                                                                         *)
(* Numbers.  A finite JavaScript number is kept in fixed point, as an      *)
(* integer count of 1/Scale units.  Values that the program computes (as   *)
(* opposed to values it is handed) can be NaN, so they are records         *)
(* [nan, v].  Reading past the end of an array gives undefined, and every  *)
(* use the program makes of such a read is arithmetic, which turns         *)
(* undefined into NaN; At models the read and the coercion together.       *)
(***************************************************************************)
EXTENDS Integers, Sequences, FiniteSets, TLC

VARIABLES
    pc,             \* where control is: "idle", "gen" (the generator's loop),
                    \* "effect" (App.tsx:56), "fit_loop", "fit_sample"
    \* generateMaternityData
    count,          \* its argument
    patients,       \* its local array
    prob,           \* its local prob of the record pushed last
    \* LogisticRegression instance
    weights, bias, learningRate, iterations,
    \* locals of fit
    X, y, i, j, dw, db,
    \* outcome of the last call made on the instance / the generator
    op,             \* "none", "fit", "predictProba", "predict", "generate"
    arg,            \* argument of the call: the feature vector of the last
                    \* predict call, <<X, y>> of a fit call until it returns
    ret,            \* value returned by the last predict call
    thrown,         \* TRUE when the last call threw
    fitStatus,      \* "never", "running", "done", "failed" (history of fit)
    \* App component state
    data, model, predictionInput, predictionResult, ethicsAudit, stats

genVars == <<count, patients, prob>>
lrVars  == <<weights, bias, learningRate, iterations>>
fitVars == <<X, y, i, j, dw, db>>
callVars == <<op, arg, ret, thrown>>
appVars == <<data, model, predictionInput, predictionResult, ethicsAudit, stats>>
vars == <<pc, count, patients, prob, weights, bias, learningRate, iterations,
          X, y, i, j, dw, db, op, arg, ret, thrown, fitStatus,
          data, model, predictionInput, predictionResult, ethicsAudit, stats>>

----------------------------------------------------------------------------
(* Bounds *)

MaxCount == 2        \* largest count handed to generateMaternityData
MaxSamples == 2      \* most rows / labels handed to fit
MaxIterations == 2   \* largest iteration count given to the constructor
CohortSize == 2      \* stands for the 500 of App.tsx:55
AppIterations == 1   \* stands for the 2000 of App.tsx:59

Scale == 1000        \* fixed-point unit: 1.0 is Scale
ExpTerms == 40       \* terms of the exponential series that are summed
ExpArgMax == 7000    \* beyond |z| = 7 the sigmoid is within 1/Scale of 0 or 1
SigmoidOne == 36737  \* 53 ln 2: from here on 1 + exp(-z) rounds to 1
ExpOverflow == 709782 \* Math.exp overflows to Infinity above 709.782

\* Values Math.random() returns, in 1/Scale units; all lie in [0,1).
Draws == {0, 999}

----------------------------------------------------------------------------
(* JavaScript numbers *)

NaN == [nan |-> TRUE, v |-> 0]
Num(n) == [nan |-> FALSE, v |-> n]

Add(a, b) == IF a.nan \/ b.nan THEN NaN ELSE Num(a.v + b.v)
Sub(a, b) == IF a.nan \/ b.nan THEN NaN ELSE Num(a.v - b.v)
Mul(a, b) == IF a.nan \/ b.nan THEN NaN ELSE Num((a.v * b.v) \div Scale)
\* The only division by zero the program can perform is 0/0 (auditGroup,
\* deliveryStats), which is NaN.
Div(a, b) == IF a.nan \/ b.nan \/ b.v = 0 THEN NaN ELSE Num((a.v * Scale) \div b.v)
\* a >= b; every comparison with NaN is false
GE(a, b) == ~a.nan /\ ~b.nan /\ a.v >= b.v
\* a > b
GT(a, b) == ~a.nan /\ ~b.nan /\ a.v > b.v

\* arr[k] (1-based here) used as an operand: undefined becomes NaN
At(arr, k) == IF k \in 1..Len(arr) THEN Num(arr[k]) ELSE NaN
\* the same for an array of computed numbers
AtNum(arr, k) == IF k \in 1..Len(arr) THEN arr[k] ELSE NaN

Zeros(n) == [k \in 1..n |-> Num(0)]

----------------------------------------------------------------------------
(* utils/dataGenerator.ts *)

\* Math.floor(r * n) for a draw r
FloorMul(r, n) == (r * n) \div Scale

Base == 50
losOf_noComplicationDays(deliveryType, complications, rOff) ==
    (IF deliveryType = "Cesarean" THEN 4 ELSE 2)
    + FloorMul(rOff, 2)

losOf_wideOffset(deliveryType, complications, rOff) ==
    (IF deliveryType = "Cesarean" THEN 4 ELSE 2)
    + (IF complications THEN 2 ELSE 0)
    + FloorMul(rOff, 3)

\* lines 25-27
losOf(deliveryType, complications, rOff) ==
    (IF deliveryType = "Cesarean" THEN 4 ELSE 2)
    + (IF complications THEN 2 ELSE 0)
    + FloorMul(rOff, 2)

probOf_anyShortStay(age, deliveryType, complications, location, los) ==
    Base
    + (IF deliveryType = "Cesarean" THEN 150 ELSE 0)
    + (IF complications THEN 250 ELSE 0)
    + (IF location = "Rural" THEN 100 ELSE 0)
    + (IF age > 35 THEN 100 ELSE 0)
    + (IF los < 5 THEN 150 ELSE 0)

probOf(age, deliveryType, complications, location, los) ==
    Base
    + (IF deliveryType = "Cesarean" THEN 150 ELSE 0)
    + (IF complications THEN 250 ELSE 0)
    + (IF location = "Rural" THEN 100 ELSE 0)
    + (IF age > 35 THEN 100 ELSE 0)
    + (IF los < 3 /\ deliveryType = "Vaginal" THEN 150 ELSE 0)

ageOf_wide(r) == FloorMul(r, 45 - 18 + 2) + 18
ageOf(r) == FloorMul(r, 45 - 18 + 1) + 18
deliveryTypeOf(r) == IF r > 700 THEN "Cesarean" ELSE "Vaginal"
locationOf(r) == IF r > 400 THEN "Urban" ELSE "Rural"
laborDurationOf(r) == FloorMul(r, 20) + 4
complicationsOf(r) == r > 800

Patient_idFromZero(idx, rAge, rType, rLoc, rLab, rComp, rOff, rAdm) ==
    LET deliveryType == deliveryTypeOf(rType)
        complications == complicationsOf(rComp)
        los == losOf(deliveryType, complications, rOff)
    IN  [id |-> idx,
         age |-> ageOf(rAge),
         deliveryType |-> deliveryType,
         laborDuration |-> laborDurationOf(rLab),
         complications |-> complications,
         los |-> los,
         location |-> locationOf(rLoc),
         readmitted |-> rAdm < probOf(ageOf(rAge), deliveryType, complications,
                                      locationOf(rLoc), los)]

\* The record pushed by loop iteration idx (0-based i of the source) for the
\* seven draws of that iteration, in the order the code makes them.
Patient(idx, rAge, rType, rLoc, rLab, rComp, rOff, rAdm) ==
    LET age == ageOf(rAge)
        deliveryType == deliveryTypeOf(rType)
        location == locationOf(rLoc)
        laborDuration == laborDurationOf(rLab)
        complications == complicationsOf(rComp)
        los == losOf(deliveryType, complications, rOff)
        p == probOf(age, deliveryType, complications, location, los)
    IN  [id |-> idx + 1,
         age |-> age,
         deliveryType |-> deliveryType,
         laborDuration |-> laborDuration,
         complications |-> complications,
         los |-> los,
         location |-> location,
         readmitted |-> rAdm < p]

\* prob of the same iteration (a local the record does not keep)
PatientProb(rAge, rType, rLoc, rComp, rOff) ==
    LET deliveryType == deliveryTypeOf(rType)
        complications == complicationsOf(rComp)
    IN  probOf(ageOf(rAge), deliveryType, complications, locationOf(rLoc),
               losOf(deliveryType, complications, rOff))

\* generateMaternityData(n) is entered: const patients = [] and the first
\* loop test; with nothing to generate it returns at once, and control goes
\* to after, the caller's continuation.
GenCall(n, after) ==
    /\ pc = "idle"
    /\ pc' = IF 0 < n THEN "gen" ELSE after
    /\ count' = n
    /\ patients' = <<>>
    /\ prob' = 0
    /\ op' = "generate"
    /\ arg' = <<>>
    /\ ret' = Num(0)
    /\ thrown' = FALSE
    /\ UNCHANGED <<fitStatus, lrVars, fitVars, appVars>>

\* one iteration of the for loop (lines 18-49), the draws taken from the
\* sets given, then i++ and the loop test: the function returns when it fails
GenStepFrom(DAge, DType, DLoc, DLab, DComp, DOff, DAdm, after) ==
    /\ pc = "gen"
    /\ Len(patients) < count
    /\ \E rAge \in DAge, rType \in DType, rLoc \in DLoc, rLab \in DLab,
          rComp \in DComp, rOff \in DOff, rAdm \in DAdm :
          /\ patients' = Append(patients,
                Patient(Len(patients), rAge, rType, rLoc, rLab, rComp, rOff, rAdm))
          /\ prob' = PatientProb(rAge, rType, rLoc, rComp, rOff)
    /\ pc' = IF Len(patients) + 1 < count THEN "gen" ELSE after
    /\ UNCHANGED <<count, fitStatus>>
    /\ UNCHANGED <<lrVars, fitVars, callVars, appVars>>

GenStep == GenStepFrom(Draws, Draws, Draws, Draws, Draws, Draws, Draws, "idle")

----------------------------------------------------------------------------
(* utils/mlModel.ts: LogisticRegression *)

\* Math.exp(x) for 0 <= x <= ExpArgMax, by its power series; term is
\* x^(k-1)/(k-1)! on entry.
RECURSIVE ExpSeries(_, _, _, _)
ExpSeries(x, k, term, acc) ==
    IF term = 0 \/ k > ExpTerms THEN acc
    ELSE ExpSeries(x, k + 1, (term * x) \div (k * Scale), acc + term)

ExpPos(x) == ExpSeries(x, 1, Scale, 0)

\* 1 / (1 + Math.exp(-z)).  In IEEE doubles the result is exactly 1 once
\* exp(-z) is below half an ulp of 1 (z >= SigmoidOne), exactly 0 once
\* exp(-z) overflows to Infinity (-z > ExpOverflow), and strictly between
\* the two otherwise; the fixed-point value keeps that by never rounding a
\* result of the middle range to 0 or to Scale.
sigmoid(z) ==
    IF z.nan THEN NaN
    ELSE IF z.v >= SigmoidOne THEN Num(Scale)
    ELSE IF -z.v > ExpOverflow THEN Num(0)
    ELSE IF z.v > ExpArgMax THEN Num(Scale - 1)
    ELSE IF -z.v > ExpArgMax THEN Num(1)
    ELSE LET e == IF z.v <= 0 THEN ExpPos(-z.v)
                  ELSE (Scale * Scale) \div ExpPos(z.v)
             s == (Scale * Scale) \div (Scale + e)
         IN  Num(IF s < 1 THEN 1 ELSE IF s > Scale - 1 THEN Scale - 1 ELSE s)

\* x.reduce((acc, val, idx) => acc + val * this.weights[idx], 0), from
\* element idx on
RECURSIVE Reduce(_, _, _, _)
Reduce(x, w, idx, acc) ==
    IF idx > Len(x) THEN acc
    ELSE Reduce(x, w, idx + 1, Add(acc, Mul(Num(x[idx]), AtNum(w, idx))))

linearModelOf(x, w, b) == Add(Reduce(x, w, 1, Num(0)), b)

predictProba(x, w, b) == sigmoid(linearModelOf(x, w, b))

predict_strict(x, w, b) == IF GT(predictProba(x, w, b), Num(Scale \div 2)) THEN 1 ELSE 0
predict(x, w, b) == IF GE(predictProba(x, w, b), Num(Scale \div 2)) THEN 1 ELSE 0

\* rows and label vectors a caller may hand to fit and predict
Rows == {<<>>, <<0>>, <<Scale>>, <<0, Scale>>}
Matrices == UNION {[1..n -> Rows] : n \in 0..MaxSamples}
Labels == UNION {[1..n -> {0, Scale}] : n \in 0..MaxSamples}

FitEnter_emptyIsNoData(Xa, ya) ==
    /\ op' = "fit"
    /\ arg' = <<Xa, ya>>
    /\ ret' = Num(0)
    /\ thrown' = FALSE
    /\ IF Len(Xa) = 0
       THEN /\ fitStatus' = "done"
            /\ pc' = "idle"
            /\ weights' = <<>>
            /\ bias' = Num(0)
            /\ UNCHANGED fitVars
       ELSE /\ fitStatus' = "running"
            /\ X' = Xa
            /\ y' = ya
            /\ weights' = Zeros(Len(Xa[1]))
            /\ bias' = Num(0)
            /\ i' = 0
            /\ pc' = "fit_loop"
            /\ UNCHANGED <<j, dw, db>>

FitEnter_keepsBias(Xa, ya) ==
    /\ op' = "fit"
    /\ arg' = <<Xa, ya>>
    /\ ret' = Num(0)
    /\ IF Len(Xa) = 0
       THEN /\ thrown' = TRUE
            /\ fitStatus' = "failed"
            /\ pc' = "idle"
            /\ UNCHANGED <<weights, bias, fitVars>>
       ELSE /\ thrown' = FALSE
            /\ fitStatus' = "running"
            /\ X' = Xa
            /\ y' = ya
            /\ weights' = Zeros(Len(Xa[1]))
            /\ bias' = bias
            /\ i' = 0
            /\ pc' = "fit_loop"
            /\ UNCHANGED <<j, dw, db>>

\* fit(Xa, ya), lines 20-23.  X[0].length throws a TypeError when X is
\* empty, before anything is assigned.
FitEnter(Xa, ya) ==
    /\ op' = "fit"
    /\ arg' = <<Xa, ya>>
    /\ ret' = Num(0)
    /\ IF Len(Xa) = 0
       THEN /\ thrown' = TRUE
            /\ fitStatus' = "failed"
            /\ pc' = "idle"
            /\ UNCHANGED <<weights, bias, fitVars>>
       ELSE /\ thrown' = FALSE
            /\ fitStatus' = "running"
            /\ X' = Xa
            /\ y' = ya
            /\ weights' = Zeros(Len(Xa[1]))
            /\ bias' = Num(0)
            /\ i' = 0
            /\ pc' = "fit_loop"
            /\ UNCHANGED <<j, dw, db>>

\* a caller that holds the instance calls fit
FitBegin(Xa, ya) ==
    /\ pc = "idle"
    /\ FitEnter(Xa, ya)
    /\ UNCHANGED <<learningRate, iterations, genVars, appVars>>

\* lines 25-27: the loop test succeeds; dw and db start at zero
FitRoundStart ==
    /\ pc = "fit_loop"
    /\ i < iterations
    /\ dw' = Zeros(Len(X[1]))
    /\ db' = Num(0)
    /\ j' = 0
    /\ pc' = "fit_sample"
    /\ UNCHANGED <<X, y, i, fitStatus>>
    /\ UNCHANGED <<lrVars, genVars, callVars, appVars>>

\* lines 30-37: sample j (0-based) adds its gradient to dw and db
diffOf(row, label, w, b) == Sub(sigmoid(linearModelOf(row, w, b)), label)

FitSample_online ==
    /\ pc = "fit_sample"
    /\ j < Len(X)
    /\ LET diff == diffOf(X[j + 1], At(y, j + 1), weights, bias)
       IN  /\ dw' = [k \in 1..Len(dw) |-> Add(dw[k], Mul(diff, At(X[j + 1], k)))]
           /\ db' = Add(db, diff)
           /\ weights' = [k \in 1..Len(weights) |->
                             Sub(weights[k],
                                 Mul(Num(learningRate), Mul(diff, At(X[j + 1], k))))]
           /\ bias' = Sub(bias, Mul(Num(learningRate), diff))
    /\ j' = j + 1
    /\ UNCHANGED <<pc, X, y, i, fitStatus>>
    /\ UNCHANGED <<learningRate, iterations, genVars, callVars, appVars>>

FitSample ==
    /\ pc = "fit_sample"
    /\ j < Len(X)
    /\ LET diff == diffOf(X[j + 1], At(y, j + 1), weights, bias)
       IN  /\ dw' = [k \in 1..Len(dw) |-> Add(dw[k], Mul(diff, At(X[j + 1], k)))]
           /\ db' = Add(db, diff)
    /\ j' = j + 1
    /\ UNCHANGED <<pc, X, y, i, fitStatus>>
    /\ UNCHANGED <<lrVars, genVars, callVars, appVars>>

\* lines 40-43 and i++: the parameters move once the batch is summed
stepOf(grad, rate, n) == Div(Mul(Num(rate), grad), Num(n * Scale))

FitUpdate ==
    /\ pc = "fit_sample"
    /\ ~(j < Len(X))
    /\ weights' = [k \in 1..Len(dw) |->
                      Sub(AtNum(weights, k), stepOf(dw[k], learningRate, Len(X)))]
    /\ bias' = Sub(bias, stepOf(db, learningRate, Len(X)))
    /\ i' = i + 1
    /\ pc' = "fit_loop"
    /\ UNCHANGED <<X, y, j, dw, db, fitStatus>>
    /\ UNCHANGED <<learningRate, iterations, genVars, callVars, appVars>>

\* the loop test fails and fit returns; its locals die
FitExit ==
    /\ pc = "fit_loop"
    /\ ~(i < iterations)
    /\ pc' = "idle"
    /\ fitStatus' = "done"
    /\ X' = <<>> /\ y' = <<>> /\ i' = 0 /\ j' = 0 /\ dw' = <<>> /\ db' = Num(0)
    /\ arg' = <<>>
    /\ UNCHANGED <<lrVars, genVars, op, ret, thrown>>

\* fit returns to a caller that does nothing more
FitReturn ==
    /\ FitExit
    /\ UNCHANGED appVars

\* predictProba(x), lines 47-50
PredictProba(x) ==
    /\ pc = "idle"
    /\ op' = "predictProba"
    /\ arg' = x
    /\ ret' = predictProba(x, weights, bias)
    /\ thrown' = FALSE
    /\ UNCHANGED <<pc, fitStatus, lrVars, fitVars, genVars, appVars>>

\* predict(x), lines 52-54
Predict(x) ==
    /\ pc = "idle"
    /\ op' = "predict"
    /\ arg' = x
    /\ ret' = Num(predict(x, weights, bias) * Scale)
    /\ thrown' = FALSE
    /\ UNCHANGED <<pc, fitStatus, lrVars, fitVars, genVars, appVars>>

preprocessPatient_urbanIsOne(p) ==
    << (p.age * Scale) \div 45,
       IF p.deliveryType = "Cesarean" THEN Scale ELSE 0,
       (p.laborDuration * Scale) \div 24,
       IF p.complications THEN Scale ELSE 0,
       (p.los * Scale) \div 10,
       IF p.location = "Urban" THEN Scale ELSE 0 >>

\* preprocessPatient(p), lines 57-66
preprocessPatient(p) ==
    << (p.age * Scale) \div 45,
       IF p.deliveryType = "Cesarean" THEN Scale ELSE 0,
       (p.laborDuration * Scale) \div 24,
       IF p.complications THEN Scale ELSE 0,
       (p.los * Scale) \div 10,
       IF p.location = "Rural" THEN Scale ELSE 0 >>

----------------------------------------------------------------------------
(* App.tsx.  A nullable piece of state is a sequence: <<>> is null and    *)
(* <<v>> holds v.  model is "null" or "lr", the one instance the effect   *)
(* creates.                                                                *)

\* the four filters handed to auditGroup, lines 111-114
Groups == {"Vaginal", "Cesarean", "Urban", "Rural"}
Matches(g, p) ==
    IF g \in {"Vaginal", "Cesarean"} THEN p.deliveryType = g ELSE p.location = g

auditGroup_overCohort(g, d, w, b) ==
    LET group == SelectSeq(d, LAMBDA p : Matches(g, p))
        correct == Len(SelectSeq(group,
                      LAMBDA p : predict(preprocessPatient(p), w, b)
                                   = (IF p.readmitted THEN 1 ELSE 0)))
    IN  Mul(Div(Num(correct * Scale), Num(Len(d) * Scale)), Num(100 * Scale))

\* auditGroup(filter), lines 102-109
auditGroup(g, d, w, b) ==
    LET group == SelectSeq(d, LAMBDA p : Matches(g, p))
        correct == Len(SelectSeq(group,
                      LAMBDA p : predict(preprocessPatient(p), w, b)
                                   = (IF p.readmitted THEN 1 ELSE 0)))
    IN  Mul(Div(Num(correct * Scale), Num(Len(group) * Scale)), Num(100 * Scale))

\* the ethicsAudit memo, lines 99-117
ethicsAuditOf(m, d, w, b) ==
    IF m = "null" \/ Len(d) = 0 THEN <<>>
    ELSE << [accVaginal |-> auditGroup("Vaginal", d, w, b),
             accCesarean |-> auditGroup("Cesarean", d, w, b),
             accUrban |-> auditGroup("Urban", d, w, b),
             accRural |-> auditGroup("Rural", d, w, b)] >>

\* a || 0 on a number: NaN and 0 are falsy
OrZero(a) == IF a.nan \/ a.v = 0 THEN Num(0) ELSE a

\* Math.abs
Abs(a) == IF a.nan THEN NaN ELSE Num(IF a.v < 0 THEN 0 - a.v ELSE a.v)

\* the four readings (ethicsAudit?.accX || 0) of the Ethics tab
auditReading(audit, g) ==
    IF audit = <<>> THEN Num(0)
    ELSE OrZero(CASE g = "Vaginal" -> audit[1].accVaginal
                  [] g = "Cesarean" -> audit[1].accCesarean
                  [] g = "Urban" -> audit[1].accUrban
                  [] g = "Rural" -> audit[1].accRural)

\* the gap shown as a delta, lines 519-520 and 536-537
accuracyGap(audit, g, h) == Abs(Sub(auditReading(audit, g), auditReading(audit, h)))

\* Bias Flag Status, lines 553-554: TRUE is "Bias Detected"
biasFlag(audit) ==
    \/ GT(accuracyGap(audit, "Vaginal", "Cesarean"), Num(10 * Scale))
    \/ GT(accuracyGap(audit, "Urban", "Rural"), Num(10 * Scale))

\* the effect starts: generateMaternityData(500) is called (line 55)
MountGenerate ==
    /\ model = "null"
    /\ data = <<>>
    /\ GenCall(CohortSize, "effect")

\* the draws of one record of the App's cohort
GenStepApp == GenStepFrom({500}, Draws, Draws, {500}, Draws, {0}, Draws, "effect")

MountTrain_publishesModel ==
    /\ pc = "effect"
    /\ data' = patients
    /\ learningRate' = 500
    /\ iterations' = AppIterations
    /\ model' = "lr"
    /\ FitEnter([k \in 1..Len(patients) |-> preprocessPatient(patients[k])],
                [k \in 1..Len(patients) |-> IF patients[k].readmitted THEN Scale ELSE 0])
    /\ UNCHANGED <<genVars, predictionInput, predictionResult, ethicsAudit, stats>>

\* the generator returns; lines 56-62 up to the entry of fit: setData,
\* new LogisticRegression(0.5, 2000), the matrix and the labels, lr.fit(X, y)
MountTrain ==
    /\ pc = "effect"
    /\ data' = patients
    /\ learningRate' = 500
    /\ iterations' = AppIterations
    /\ FitEnter([k \in 1..Len(patients) |-> preprocessPatient(patients[k])],
                [k \in 1..Len(patients) |-> IF patients[k].readmitted THEN Scale ELSE 0])
    /\ UNCHANGED <<genVars, model, predictionInput, predictionResult, ethicsAudit, stats>>

\* fit returns and setModel(lr) runs, line 63
MountSetModel ==
    /\ FitExit
    /\ model' = "lr"
    /\ UNCHANGED <<data, predictionInput, predictionResult, ethicsAudit, stats>>

\* toFixed(1), as the number it prints
toFixed1(a) == IF a.nan THEN NaN ELSE Num(((a.v + 50) \div 100) * 100)

\* the stats memo, lines 67-96
statsOf(d) ==
    IF Len(d) = 0 THEN <<>>
    ELSE LET countOf(Test(_)) == Len(SelectSeq(d, Test))
             isReadmitted(p) == p.readmitted
             isCesarean(p) == p.deliveryType = "Cesarean"
             sumAge[k \in 0..Len(d)] == IF k = 0 THEN 0 ELSE sumAge[k - 1] + d[k].age
             deliveryStat(name) ==
                 LET inGroup(p) == p.deliveryType = name
                     inGroupReadmitted(p) == p.deliveryType = name /\ p.readmitted
                     total == countOf(inGroup)
                     readmitted == countOf(inGroupReadmitted)
                 IN  [name |-> name, total |-> total, readmitted |-> readmitted,
                      rate |-> toFixed1(Mul(Div(Num(readmitted * Scale), Num(total * Scale)),
                                            Num(100 * Scale)))]
         IN  << [readmittedCount |-> countOf(isReadmitted),
                 cesareanCount |-> countOf(isCesarean),
                 avgAge |-> Div(Num(sumAge[Len(d)] * Scale), Num(Len(d) * Scale)),
                 ageDist |-> [b \in 1..6 |->
                                 LET min == 18 + (b - 1) * 5
                                     inRange(p) == p.age >= min /\ p.age <= min + 4
                                 IN  countOf(inRange)],
                 deliveryStats |-> <<deliveryStat("Vaginal"), deliveryStat("Cesarean")>>] >>

RenderAudit_relabels ==
    /\ pc = "idle"
    /\ op' = "audit"
    /\ ethicsAudit' = ethicsAuditOf(model, data, weights, bias)
    /\ stats' = statsOf(data)
    /\ data' = IF model = "null" THEN data
               ELSE [k \in 1..Len(data) |->
                        [data[k] EXCEPT !.readmitted =
                            predict(preprocessPatient(data[k]), weights, bias) = 1]]
    /\ UNCHANGED <<pc, arg, ret, thrown, fitStatus>>
    /\ UNCHANGED <<lrVars, fitVars, genVars, model, predictionInput, predictionResult>>

\* a render evaluates the stats memo and the ethicsAudit memo
RenderAudit ==
    /\ pc = "idle"
    /\ op' = "audit"
    /\ ethicsAudit' = ethicsAuditOf(model, data, weights, bias)
    /\ stats' = statsOf(data)
    /\ UNCHANGED <<pc, arg, ret, thrown, fitStatus>>
    /\ UNCHANGED <<lrVars, fitVars, genVars, data, model, predictionInput, predictionResult>>

\* predictionInput as first rendered, lines 43-50
NoInput == [age |-> 28, deliveryType |-> "Vaginal", laborDuration |-> 12,
            complications |-> FALSE, los |-> 3, location |-> "Urban"]

\* the form changes predictionInput
PredictionInputs ==
    {NoInput,
     [age |-> 45, deliveryType |-> "Cesarean", laborDuration |-> 24,
      complications |-> TRUE, los |-> 10, location |-> "Rural"]}

SetPredictionInput(input) ==
    /\ pc = "idle"
    /\ input # predictionInput
    /\ predictionInput' = input
    /\ op' = "setPredictionInput"
    /\ UNCHANGED <<pc, arg, ret, thrown, fitStatus>>
    /\ UNCHANGED <<lrVars, fitVars, genVars, data, model, predictionResult, ethicsAudit, stats>>

handlePredict_learns ==
    /\ pc = "idle"
    /\ op' = "handlePredict"
    /\ IF model = "null"
       THEN UNCHANGED <<arg, ret, predictionResult, bias>>
       ELSE LET features == preprocessPatient(predictionInput)
                p == predictProba(features, weights, bias)
            IN  /\ arg' = features
                /\ ret' = p
                /\ predictionResult' = <<p>>
                /\ bias' = Sub(bias, Mul(Num(learningRate), p))
    /\ UNCHANGED <<pc, thrown, fitStatus>>
    /\ UNCHANGED <<weights, learningRate, iterations>>
    /\ UNCHANGED <<fitVars, genVars, data, model, predictionInput, ethicsAudit, stats>>

\* handlePredict, lines 119-124
handlePredict ==
    /\ pc = "idle"
    /\ op' = "handlePredict"
    /\ IF model = "null"
       THEN UNCHANGED <<arg, ret, predictionResult>>
       ELSE LET features == preprocessPatient(predictionInput)
                p == predictProba(features, weights, bias)
            IN  /\ arg' = features
                /\ ret' = p
                /\ predictionResult' = <<p>>
    /\ UNCHANGED <<pc, thrown, fitStatus>>
    /\ UNCHANGED <<lrVars, fitVars, genVars, data, model, predictionInput, ethicsAudit, stats>>

----------------------------------------------------------------------------
(* Initial state *)

InitCommon ==
    /\ pc = "idle"
    /\ count = 0 /\ patients = <<>> /\ prob = 0
    /\ weights = <<>> /\ bias = Num(0)
    /\ X = <<>> /\ y = <<>> /\ i = 0 /\ j = 0 /\ dw = <<>> /\ db = Num(0)
    /\ op = "none" /\ arg = <<>> /\ ret = Num(0) /\ thrown = FALSE
    /\ fitStatus = "never"
    /\ data = <<>> /\ model = "null" /\ predictionInput = NoInput
    /\ predictionResult = <<>> /\ ethicsAudit = <<>> /\ stats = <<>>

InitGen ==
    /\ InitCommon
    /\ learningRate = 100 /\ iterations = 1000

\* one call of the generator, with any count (it keeps nothing between calls)
NextGen ==
    \/ op = "none" /\ \E n \in 0..MaxCount : GenCall(n, "idle")
    \/ GenStep

SpecGen == InitGen /\ [][NextGen]_vars

\* new LogisticRegression(learningRate, iterations), then any number of fit
\* calls, then any number of predictions (which change nothing a later fit
\* could depend on)
LearningRates == {100, 500}
DefaultVector == preprocessPatient(NoInput)
\* feature vectors far outside the normalised range, which predictProba
\* accepts like any other
LargeVectors == {<<200 * Scale>>, <<0 - 2000 * Scale>>}
Vectors == Rows \cup {DefaultVector} \cup LargeVectors

InitFit ==
    /\ InitCommon
    /\ learningRate \in LearningRates
    /\ iterations \in 0..MaxIterations

NextFit ==
    \/ op \in {"none", "fit"} /\ \E Xa \in Matrices, ya \in Labels : FitBegin(Xa, ya)
    \/ FitRoundStart
    \/ FitSample
    \/ FitUpdate
    \/ FitReturn
    \/ \E x \in Vectors : PredictProba(x)
    \/ \E x \in Vectors : Predict(x)

SpecFit == InitFit /\ [][NextFit]_vars

\* the App component: first render, the effect, then renders and clicks
InitApp ==
    /\ InitCommon
    /\ learningRate = 100 /\ iterations = 1000

Next ==
    \/ MountGenerate
    \/ GenStepApp
    \/ MountTrain
    \/ FitRoundStart
    \/ FitSample
    \/ FitUpdate
    \/ MountSetModel
    \/ RenderAudit
    \/ \E input \in PredictionInputs : SetPredictionInput(input)
    \/ handlePredict

Spec == InitApp /\ [][Next]_vars

----------------------------------------------------------------------------
(* Properties of generateMaternityData, checked under SpecGen *)

Returned == pc = "idle" /\ op = "generate"

\* C1: generateMaternityData(count) returns exactly count records whose ids
\* are 1, 2, ..., count in that order, so no two records share an id,
\* whatever the draws were.
C1_IdsOneToCount ==
    Returned =>
        /\ Len(patients) = count
        /\ \A k \in 1..Len(patients) : patients[k].id = k
        /\ \A k, l \in 1..Len(patients) : k # l => patients[k].id # patients[l].id

C1_Witness == Returned /\ count >= 2 /\ Len(patients) = count

C3_ProbIsSumOfIncrements ==
    Len(patients) > 0 =>
        LET p == patients[Len(patients)]
            inc(c, amount) == IF c THEN amount ELSE 0
        IN  /\ prob = 50 + inc(p.deliveryType = "Cesarean", 150)
                         + inc(p.complications, 250)
                         + inc(p.location = "Rural", 100)
                         + inc(p.age > 35, 100)
                         + inc(p.deliveryType = "Vaginal" /\ p.los < 3, 150)
            /\ probOf(40, "Cesarean", TRUE, "Rural", 6) = 650

C3_Witness ==
    /\ Len(patients) > 0
    /\ LET p == patients[Len(patients)]
       IN  /\ p.deliveryType = "Cesarean" /\ p.complications
           /\ p.location = "Rural" /\ p.age > 35 /\ p.los = 6
    /\ prob = 650

----------------------------------------------------------------------------
(* Properties of LogisticRegression, checked under SpecFit / FairSpecFit *)

\* a step that is a call of fit
FitCalled == pc = "idle" /\ op' = "fit"
InFit == pc \in {"fit_loop", "fit_sample"}
Ragged(Xa) == \E a, b \in 1..Len(Xa) : Len(Xa[a]) # Len(Xa[b])
NonZero(w) == \E k \in 1..Len(w) : w[k] # Num(0)
Half == Num(Scale \div 2)

\* C4: fit called with an empty feature matrix fails synchronously with an
\* error, performs no training round and leaves weights and bias as they were.
C4_EmptyMatrixThrows ==
    [][(FitCalled /\ Len(arg'[1]) = 0) =>
          /\ thrown' /\ fitStatus' = "failed"
          /\ pc' = "idle"
          /\ weights' = weights /\ bias' = bias
          /\ UNCHANGED fitVars]_vars

C4_Witness ==
    /\ op = "fit" /\ thrown /\ fitStatus = "failed" /\ pc = "idle"
    /\ Len(arg[1]) = 0
    /\ NonZero(weights)

\* C5: fit called with a non-empty matrix that is ragged, or whose row
\* count differs from the number of labels, fails before any training round
\* and leaves weights and bias unchanged.
C5_InvalidInputRejected ==
    [][(/\ FitCalled
        /\ Len(arg'[1]) > 0
        /\ (Ragged(arg'[1]) \/ Len(arg'[1]) # Len(arg'[2]))) =>
          /\ thrown' /\ pc' = "idle"
          /\ weights' = weights /\ bias' = bias]_vars

\* steps fit still has to take before it has returned: each round is its
\* start, one step per sample and the update; then the failing loop test
StepsLeft ==
    IF pc = "fit_loop" THEN (iterations - i) * (Len(X) + 2) + 1
    ELSE IF pc = "fit_sample"
         THEN (Len(X) - j) + 1 + (iterations - i - 1) * (Len(X) + 2) + 1
    ELSE 0

\* C6: every successful fit first resets weights and bias to zero, whatever
\* an earlier fit left, then performs exactly iterations update rounds and
\* terminates (every step of fit uses up one of a finite number of steps
\* left); with iterations = 0 the parameters are zero after fit and
\* predictProba returns 0.5 for every feature vector of the fitted width.
C6_FitResetsThenRunsIterations ==
    /\ [][(pc = "idle" /\ pc' = "fit_loop") =>
             /\ Len(weights') = Len(X'[1])
             /\ ~NonZero(weights') /\ bias' = Num(0)
             /\ i' = 0]_vars
    /\ [][InFit =>
             /\ (weights' # weights \/ bias' # bias) => i' = i + 1
             /\ (i' # i /\ pc' # "idle") =>
                   /\ i' = i + 1 /\ pc = "fit_sample" /\ j = Len(X)
                   /\ pc' = "fit_loop"
             /\ pc' = "idle" => (i = iterations /\ fitStatus' = "done")]_vars
    /\ [](fitStatus = "done" /\ iterations = 0 =>
             /\ ~NonZero(weights) /\ bias = Num(0)
             /\ (op = "predictProba" /\ Len(arg) <= Len(weights)) => ret = Half)
    /\ [][InFit => (StepsLeft >= 1 /\ StepsLeft' = StepsLeft - 1)]_vars
    /\ [](fitStatus = "running" <=> InFit)

C6_Witness ==
    /\ fitStatus = "done" /\ iterations = 0
    /\ op = "predictProba" /\ Len(arg) = Len(weights) /\ Len(arg) > 0
    /\ arg[1] # 0
    /\ ret = Half

\* C7: predictProba or predict on a model on which fit was never called,
\* with any 6-element feature vector, does not fail and predictProba returns
\* 0.5, the parameters being a length-6 zero weight vector and a zero bias.
C7_UntrainedPredictsHalf ==
    (fitStatus = "never" /\ op \in {"predictProba", "predict"} /\ Len(arg) = 6) =>
        /\ ~thrown
        /\ op = "predictProba" => ret = Half

\* C8: predict(f) returns 1 if and only if predictProba(f) >= 0.5 and 0
\* otherwise, in every model state; a probability of exactly 0.5 gives 1.
C8_PredictIsThresholdAtHalf ==
    op = "predict" =>
        LET p == predictProba(arg, weights, bias)
        IN  /\ ret \in {Num(0), Num(Scale)}
            /\ ret = Num(Scale) <=> (~p.nan /\ p.v >= Scale \div 2)
            /\ p = Half => ret = Num(Scale)

C8_Witness ==
    /\ op = "predict" /\ fitStatus = "done" /\ Len(arg) > 0
    /\ predictProba(arg, weights, bias) = Half
    /\ ret = Num(Scale)

----------------------------------------------------------------------------
(* Properties of the App, checked under Spec *)

\* C9: weights and bias change only during fit: predictProba, predict and
\* the subgroup audit leave weights, bias, learningRate and iterations
\* unchanged, so two predictions on the same feature vector with no fit in
\* between return the same value.
C9_ParametersChangeOnlyInFit ==
    /\ [][(lrVars' # lrVars) => (op' = "fit" /\ pc' = "fit_loop")]_vars
    /\ [][(op' \in {"handlePredict", "audit"}) => lrVars' = lrVars]_vars
    /\ [][(/\ op = "handlePredict" /\ op' = "handlePredict"
           /\ model = "lr" /\ predictionResult # <<>>
           /\ predictionInput' = predictionInput) =>
             predictionResult' = predictionResult]_vars
    /\ [](model = "lr" /\ op = "handlePredict" =>
             predictionResult =
                <<predictProba(preprocessPatient(predictionInput), weights, bias)>>)

C9_Witness ==
    /\ model = "lr" /\ op = "handlePredict"
    /\ predictionResult # <<>> /\ ethicsAudit # <<>>
    /\ NonZero(weights)

\* C10: for a subgroup with at least one record the audit returns 100 times
\* the number of records of the subgroup whose predicted label equals the
\* ground-truth label, divided by the number of records of the subgroup;
\* records outside the subgroup count in neither.
Members(g) == {k \in 1..Len(data) : Matches(g, data[k])}
Correct(k) ==
    LET p == sigmoid(linearModelOf(preprocessPatient(data[k]), weights, bias))
    IN  (~p.nan /\ p.v >= Scale \div 2) <=> data[k].readmitted
Accuracy(g) ==
    LET a == ethicsAudit[1]
    IN  CASE g = "Vaginal" -> a.accVaginal
          [] g = "Cesarean" -> a.accCesarean
          [] g = "Urban" -> a.accUrban
          [] g = "Rural" -> a.accRural

C10_AuditIsSubgroupAccuracy ==
    ethicsAudit # <<>> =>
        \A g \in Groups :
            Members(g) # {} =>
                Accuracy(g) =
                    Num(((Cardinality({k \in Members(g) : Correct(k)}) * Scale)
                            \div Cardinality(Members(g))) * 100)

C10_Witness ==
    /\ ethicsAudit # <<>>
    /\ \E g \in Groups :
          /\ Members(g) # {}
          /\ \A k \in Members(g) : Correct(k)
          /\ \E k \in 1..Len(data) : k \notin Members(g) /\ ~Correct(k)
          /\ Accuracy(g) = Num(100 * Scale)

\* C11: when a subgroup has no record in a non-empty cohort, the audit
\* reports an explicit no-data result for it: the accuracy stored for the
\* subgroup is not NaN, and the value that enters the accuracy gap and the
\* bias flag for it is not a number of the range 0..100 either.
C11_EmptySubgroupIsNoData ==
    ethicsAudit # <<>> =>
        \A g \in Groups :
            Members(g) = {} =>
                /\ ~Accuracy(g).nan
                /\ LET r == auditReading(ethicsAudit, g)
                   IN  ~(~r.nan /\ r.v >= 0 /\ r.v <= 100 * Scale)

\* C12: given the four subgroup accuracies, the bias flag is raised if and
\* only if the absolute difference of accVaginal and accCesarean exceeds 10
\* or that of accUrban and accRural exceeds 10, the differences being taken
\* on the accuracies the audit returned; a gap of exactly 10 on both axes
\* does not raise the flag.
C12_BiasFlagIsGapOverTen ==
    ethicsAudit # <<>> =>
        LET a == ethicsAudit[1]
            gapDelivery == Abs(Sub(a.accVaginal, a.accCesarean))
            gapLocation == Abs(Sub(a.accUrban, a.accRural))
            over(gap) == ~gap.nan /\ gap.v > 10 * Scale
        IN  /\ biasFlag(ethicsAudit) <=> (over(gapDelivery) \/ over(gapLocation))
            /\ ~biasFlag(<<[accVaginal |-> Num(60 * Scale), accCesarean |-> Num(50 * Scale),
                            accUrban |-> Num(40 * Scale), accRural |-> Num(50 * Scale)]>>)

\* C13: preprocessPatient(record) is the 6-element vector age/45, Cesarean
\* indicator, laborDuration/24, complications indicator, los/10, Rural
\* indicator, in that order, for the records of the cohort and for the form's
\* record alike; it depends on the record's fields only and leaves the
\* record as it was.
IsEncodingOf(v, p) ==
    /\ Len(v) = 6
    /\ 45 * v[1] <= p.age * Scale /\ p.age * Scale < 45 * (v[1] + 1)
    /\ v[2] = Scale <=> p.deliveryType = "Cesarean"
    /\ v[2] = 0 <=> p.deliveryType # "Cesarean"
    /\ 24 * v[3] <= p.laborDuration * Scale /\ p.laborDuration * Scale < 24 * (v[3] + 1)
    /\ v[4] = Scale <=> p.complications
    /\ v[4] = 0 <=> ~p.complications
    /\ 10 * v[5] <= p.los * Scale /\ p.los * Scale < 10 * (v[5] + 1)
    /\ v[6] = Scale <=> p.location = "Rural"
    /\ v[6] = 0 <=> p.location # "Rural"

C13_EncodingIsSixFeatures ==
    /\ [](model = "lr" /\ op = "handlePredict" => IsEncodingOf(arg, predictionInput))
    /\ [](InFit => /\ Len(X) = Len(data)
                   /\ \A k \in 1..Len(X) : IsEncodingOf(X[k], data[k]))
    /\ [][op' = "handlePredict" =>
             predictionInput' = predictionInput /\ data' = data]_vars
    /\ [][(pc = "effect" /\ op' = "fit") => data' = patients /\ patients' = patients]_vars

C13_Witness ==
    /\ model = "lr" /\ op = "handlePredict"
    /\ predictionInput.laborDuration = 24 /\ predictionInput.location = "Rural"
    /\ arg = <<Scale, Scale, Scale, Scale, Scale, Scale>>
    /\ \E k \in 1..Len(data) : data[k].location = "Urban"

\* C14: readmitted and every other field of a record are fixed when the
\* record is generated: training, the subgroup audit, the EDA statistics and
\* the interactive prediction never modify a record of the cohort, and the
\* cohort in app state is the generated one.
C14_CohortIsNeverModified ==
    /\ [][\A k \in 1..Len(patients) :
             Len(patients') >= k /\ patients'[k] = patients[k]]_vars
    /\ [][data # <<>> => data' = data]_vars
    /\ [][(op' \in {"fit", "audit", "handlePredict"} /\ pc # "effect") =>
             data' = data /\ patients' = patients]_vars
    /\ [](data # <<>> => data = patients)

C14_Witness ==
    /\ model = "lr" /\ op = "handlePredict" /\ predictionResult # <<>>
    /\ ethicsAudit # <<>> /\ stats # <<>>
    /\ stats[1].readmittedCount = 1
    /\ \E k \in 1..Len(data) : ~Correct(k)
    /\ data = patients

----------------------------------------------------------------------------
(* Properties of LogisticRegression, checked under SpecFit *)

Finite(w, b) == ~b.nan /\ \A k \in 1..Len(w) : ~w[k].nan

\* C15: sigmoid(0) is exactly 0.5 and sigmoid is strictly between 0 and 1
\* for every finite z, so predictProba returns neither 0 nor 1 nor a
\* non-number for finite weights, bias and features.
C15_ProbabilityStrictlyInside ==
    /\ sigmoid(Num(0)) = Half
    /\ (op = "predictProba" /\ Finite(weights, bias) /\ Len(arg) <= Len(weights)) =>
          ~ret.nan /\ ret.v > 0 /\ ret.v < Scale

----------------------------------------------------------------------------
(* Further properties of generateMaternityData, checked under SpecGen *)

LastPatient == patients[Len(patients)]

\* C16: prob of every generated record is strictly below 1 and lies in
\* 0.05..0.65: a Vaginal record with complications has los of at least 4,
\* so the Vaginal short-stay increment never meets the complications
\* increment or the Cesarean increment.
C16_ProbBelowOne ==
    /\ \A k \in 1..Len(patients) :
          (patients[k].deliveryType = "Vaginal" /\ patients[k].complications) =>
              patients[k].los >= 4
    /\ Len(patients) > 0 =>
          LET p == LastPatient
              others == 50 + (IF p.deliveryType = "Cesarean" THEN 150 ELSE 0)
                           + (IF p.complications THEN 250 ELSE 0)
                           + (IF p.location = "Rural" THEN 100 ELSE 0)
                           + (IF p.age > 35 THEN 100 ELSE 0)
          IN  /\ prob < Scale
              /\ prob >= 50 /\ prob <= 650
              /\ prob - others \in {0, 150}
              /\ prob - others = 150 =>
                    p.deliveryType # "Cesarean" /\ ~p.complications

C16_Witness ==
    /\ Len(patients) > 0
    /\ LastPatient.deliveryType = "Vaginal" /\ LastPatient.complications
    /\ LastPatient.los = 4 /\ LastPatient.age > 35 /\ LastPatient.location = "Rural"
    /\ prob = 500

\* C17: los is 4 for Cesarean and 2 otherwise, plus 2 with complications,
\* plus an offset of 0 or 1: 2 or 3 for Vaginal without complications, 4 or
\* 5 for Vaginal with complications and for Cesarean without, 6 or 7 for
\* Cesarean with complications, and never more than 7.
C17_LosBlocks ==
    \A k \in 1..Len(patients) :
        LET p == patients[k]
            cesarean == p.deliveryType = "Cesarean"
        IN  /\ p.los - (IF cesarean THEN 4 ELSE 2)
                     - (IF p.complications THEN 2 ELSE 0) \in {0, 1}
            /\ (~cesarean /\ ~p.complications) => p.los \in {2, 3}
            /\ (~cesarean /\ p.complications) => p.los \in {4, 5}
            /\ (cesarean /\ ~p.complications) => p.los \in {4, 5}
            /\ (cesarean /\ p.complications) => p.los \in {6, 7}
            /\ p.los <= 7

C17_Witness ==
    /\ Returned
    /\ \E k \in 1..Len(patients) :
          /\ patients[k].deliveryType = "Cesarean" /\ patients[k].complications
          /\ patients[k].los = 7
    /\ \E k \in 1..Len(patients) :
          /\ patients[k].deliveryType = "Vaginal" /\ patients[k].complications
          /\ patients[k].los = 5

\* the gradient of the first n samples at the parameters w, b: its k-th
\* weight component, and its bias component
RECURSIVE SumGradW(_, _, _, _, _, _)
SumGradW(Xa, ya, w, b, k, n) ==
    IF n = 0 THEN Num(0)
    ELSE Add(SumGradW(Xa, ya, w, b, k, n - 1),
             Mul(Sub(sigmoid(linearModelOf(Xa[n], w, b)), At(ya, n)), At(Xa[n], k)))

RECURSIVE SumGradB(_, _, _, _, _)
SumGradB(Xa, ya, w, b, n) ==
    IF n = 0 THEN Num(0)
    ELSE Add(SumGradB(Xa, ya, w, b, n - 1),
             Sub(sigmoid(linearModelOf(Xa[n], w, b)), At(ya, n)))

\* C18: within a training round the error of every sample is computed with
\* the weights and bias as they were at the start of the round; weights and
\* bias are updated exactly once per round, after the gradients of all
\* samples are summed, by weight_k -= learningRate * gradient_k / sampleCount
\* and bias -= learningRate * biasGradient / sampleCount.
C18_BatchUpdateOncePerRound ==
    /\ [](pc = "fit_sample" =>
             /\ Len(dw) = Len(X[1])
             /\ \A k \in 1..Len(dw) : dw[k] = SumGradW(X, y, weights, bias, k, j)
             /\ db = SumGradB(X, y, weights, bias, j))
    /\ [][(pc = "fit_sample" /\ pc' = "fit_sample") =>
             (weights' = weights /\ bias' = bias /\ i' = i)]_vars
    /\ [][(InFit /\ (weights' # weights \/ bias' # bias)) =>
             (pc = "fit_sample" /\ pc' = "fit_loop")]_vars
    /\ [][(pc = "fit_sample" /\ pc' = "fit_loop") =>
             LET n == Len(X)
                 lr == Num(learningRate)
             IN  /\ j = n /\ i' = i + 1
                 /\ Len(weights') = Len(X[1])
                 /\ \A k \in 1..Len(weights') :
                       weights'[k] =
                          Sub(AtNum(weights, k),
                              Div(Mul(lr, SumGradW(X, y, weights, bias, k, n)),
                                  Num(n * Scale)))
                 /\ bias' = Sub(bias, Div(Mul(lr, SumGradB(X, y, weights, bias, n)),
                                          Num(n * Scale)))]_vars

C18_Witness ==
    /\ pc = "fit_loop" /\ i = 2
    /\ Len(X) = 2 /\ X[1] # X[2] /\ ~Ragged(X) /\ Len(y) = 2 /\ y[1] # y[2]
    /\ Finite(weights, bias) /\ NonZero(weights)

\* one round of fit at the parameters w, b, and n rounds from zero
\* parameters, as functions of the matrix and the labels
RoundOf(Xa, ya, w, b, rate) ==
    LET n == Len(Xa)
    IN  [w |-> [k \in 1..Len(Xa[1]) |->
                   Sub(AtNum(w, k),
                       Div(Mul(Num(rate), SumGradW(Xa, ya, w, b, k, n)), Num(n * Scale)))],
         b |-> Sub(b, Div(Mul(Num(rate), SumGradB(Xa, ya, w, b, n)), Num(n * Scale)))]

RECURSIVE FitRounds(_, _, _, _)
FitRounds(Xa, ya, rate, n) ==
    IF n = 0 THEN [w |-> Zeros(Len(Xa[1])), b |-> Num(0)]
    ELSE LET prev == FitRounds(Xa, ya, rate, n - 1)
         IN  RoundOf(Xa, ya, prev.w, prev.b, rate)

Orders(n) == {f \in [1..n -> 1..n] : \A a, b \in 1..n : a # b => f[a] # f[b]}
FitEnds == pc = "fit_loop" /\ i = iterations

\* C19: the parameters fit produces do not depend on the order of the
\* samples: for any permutation applied to the rows of the matrix and to the
\* labels alike, fit with the same learningRate and iterations yields the
\* same weights and bias.
C19_SampleOrderIrrelevant ==
    (FitEnds /\ Len(y) = Len(X)) =>
        \A f \in Orders(Len(X)) :
            FitRounds([k \in 1..Len(X) |-> X[f[k]]],
                      [k \in 1..Len(X) |-> y[f[k]]],
                      learningRate, iterations)
              = [w |-> weights, b |-> bias]

\* the same for matrices whose rows have one width
C19_SampleOrderIrrelevantUniform ==
    (FitEnds /\ Len(y) = Len(X) /\ ~Ragged(X)) =>
        \A f \in Orders(Len(X)) :
            FitRounds([k \in 1..Len(X) |-> X[f[k]]],
                      [k \in 1..Len(X) |-> y[f[k]]],
                      learningRate, iterations)
              = [w |-> weights, b |-> bias]

----------------------------------------------------------------------------
(* Further properties of the App, checked under Spec *)

CohortMatrix == [k \in 1..Len(data) |-> preprocessPatient(data[k])]
CohortLabels == [k \in 1..Len(data) |-> IF data[k].readmitted THEN Scale ELSE 0]

\* C20: in the application no prediction is made on an untrained model: in
\* every reachable state model is null or the instance on which fit has
\* completed on the generated cohort, and the subgroup audit and
\* handlePredict do nothing (null, no result set) while model is null.
C20_NoPredictionBeforeTraining ==
    /\ [](model = "lr" =>
             /\ fitStatus = "done" /\ pc = "idle"
             /\ data = patients /\ Len(data) = CohortSize)
    /\ [][(model = "null" /\ model' = "lr") =>
             [w |-> weights', b |-> bias']
                = FitRounds(CohortMatrix, CohortLabels, 500, AppIterations)]_vars
    /\ [][model = "lr" =>
             (model' = "lr" /\ weights' = weights /\ bias' = bias /\ data' = data)]_vars
    /\ [](model = "null" => predictionResult = <<>> /\ ethicsAudit = <<>>)
    /\ [][(model = "null" /\ model' = "lr") =>
             (op = "fit" /\ FitEnds /\ X = CohortMatrix /\ y = CohortLabels)]_vars
    /\ [][(model = "null" /\ op' = "handlePredict") =>
             (predictionResult' = <<>> /\ ret' = ret /\ arg' = arg)]_vars
    /\ [][(model = "null" /\ op' = "audit") => ethicsAudit' = <<>>]_vars

C20_Witness ==
    /\ model = "null" /\ op = "handlePredict"
    /\ predictionInput # NoInput
    /\ predictionResult = <<>> /\ ethicsAudit = <<>>

====
